---------------------------- MODULE Spec2Model ----------------------------
(***************************************************************************)
(* Model of the wasmtime-http command-line harness                         *)
(* (src/bin/wasmtime-http.rs) and of the integration harness               *)
(* (src/tests/integration.rs).                                             *)
(*                                                                         *)
(* Text is modelled as sequences of one-character strings, integers of     *)
(* the Rust integer kinds as sign/magnitude digit sequences (so that the   *)
(* 32- and 64-bit ranges are kept exactly), and the standard output as a   *)
(* sequence of printed lines.                                              *)
(***************************************************************************)
EXTENDS Integers, Sequences, FiniteSets, TLC

VARIABLES
    stage,          \* position of the run inside main / create_instance / invoke_func
    cmdline,        \* the command line: [env, module, invoke, allowed_hosts, max_concurrency, module_args]
    vars,           \* Opt::vars, the parsed (NAME, VAL) pairs
    wasi_env,       \* the environment held by the system-interface capability
    linker,         \* capabilities registered in the linker, in registration order
    http,           \* the HTTP capability: [allowed_hosts, max_concurrent_requests], or NoHttp
    instance,       \* the instantiated module, or NoInstance
    func,           \* the resolved exported function, or NoFunc
    values,         \* invoke_func's encoded argument values
    results,        \* the values returned by the guest call
    stdout,         \* the lines printed so far
    err,            \* the error that ended the run, or NoErr
    calls,          \* number of times the guest function was entered
    requests,       \* the outbound requests made through the HTTP capability, in issue order
    pending,        \* the names of the exported functions still to be called
    trace           \* the steps taken so far, in order

vars_all == <<stage, cmdline, vars, wasi_env, linker, http, instance, func,
              values, results, stdout, err, calls, requests, pending, trace>>

-----------------------------------------------------------------------------
(* Bounds of the model *)

MaxParams == 2
MaxArgs == 2
MaxEnv == 2
MaxRequests == 3
MaxConcurrency == 2

-----------------------------------------------------------------------------
(* Text and numbers *)

DigitChars == {"0", "1", "2", "3", "4", "5", "6", "7", "8", "9"}

DigitOf(c) ==
    CASE c = "0" -> 0 [] c = "1" -> 1 [] c = "2" -> 2 [] c = "3" -> 3
      [] c = "4" -> 4 [] c = "5" -> 5 [] c = "6" -> 6 [] c = "7" -> 7
      [] c = "8" -> 8 [] c = "9" -> 9

CharOf(d) ==
    CASE d = 0 -> "0" [] d = 1 -> "1" [] d = 2 -> "2" [] d = 3 -> "3"
      [] d = 4 -> "4" [] d = 5 -> "5" [] d = 6 -> "6" [] d = 7 -> "7"
      [] d = 8 -> "8" [] d = 9 -> "9"

\* A magnitude is a digit sequence without leading zeros; zero is <<0>>.
RECURSIVE StripZeros(_)
StripZeros(ds) ==
    IF Len(ds) > 1 /\ ds[1] = 0 THEN StripZeros(Tail(ds)) ELSE ds

RECURSIVE LexLeq(_, _)
LexLeq(a, b) ==
    IF a = <<>> THEN TRUE
    ELSE IF a[1] # b[1] THEN a[1] < b[1]
    ELSE LexLeq(Tail(a), Tail(b))

MagLeq(a, b) ==
    \/ Len(a) < Len(b)
    \/ Len(a) = Len(b) /\ LexLeq(a, b)

MagLess(a, b) == MagLeq(a, b) /\ a # b

RECURSIVE MagToNat(_)
MagToNat(ds) ==
    IF ds = <<>> THEN 0 ELSE MagToNat(SubSeq(ds, 1, Len(ds) - 1)) * 10 + ds[Len(ds)]

RECURSIVE NatToMag(_)
NatToMag(n) ==
    IF n < 10 THEN <<n>> ELSE Append(NatToMag(n \div 10), n % 10)

MagText(ds) == [i \in 1..Len(ds) |-> CharOf(ds[i])]

Zeros(n) == [i \in 1..n |-> "0"]

\* Limits of the integer kinds, as magnitudes.
I32Max == <<2,1,4,7,4,8,3,6,4,7>>
I32MinMag == <<2,1,4,7,4,8,3,6,4,8>>
I64Max == <<9,2,2,3,3,7,2,0,3,6,8,5,4,7,7,5,8,0,7>>
I64MinMag == <<9,2,2,3,3,7,2,0,3,6,8,5,4,7,7,5,8,0,8>>
U32Max == <<4,2,9,4,9,6,7,2,9,5>>
U64Max == <<1,8,4,4,6,7,4,4,0,7,3,7,0,9,5,5,1,6,1,5>>


\* a - b on magnitudes, for a >= b (schoolbook subtraction, right to left).
RECURSIVE SubDigits(_, _, _)
SubDigits(a, b, borrow) ==
    IF a = <<>> THEN <<>>
    ELSE LET da == a[Len(a)]
             db == (IF b = <<>> THEN 0 ELSE b[Len(b)]) + borrow
             d  == IF da >= db THEN da - db ELSE da + 10 - db
             bo == IF da >= db THEN 0 ELSE 1
             a1 == SubSeq(a, 1, Len(a) - 1)
             b1 == IF b = <<>> THEN <<>> ELSE SubSeq(b, 1, Len(b) - 1)
         IN  Append(SubDigits(a1, b1, bo), d)

MagSub(a, b) == StripZeros(SubDigits(a, b, 0))

RECURSIVE Pow10(_)
Pow10(k) == IF k = 0 THEN 1 ELSE 10 * Pow10(k - 1)

-----------------------------------------------------------------------------
(* str::parse for the integer kinds (core::num, from_str_radix with radix 10) *)

\* The digit loop: every character must be a digit, and the accumulated value
\* must stay within `limit` (checked_mul / checked_add, or checked_sub when
\* the sign is negative); the first offending character decides the error.
RECURSIVE ParseDigits(_, _, _)
ParseDigits(chars, acc, limit) ==
    IF chars = <<>> THEN [ok |-> TRUE, mag |-> acc, why |-> "none"]
    ELSE IF chars[1] \notin DigitChars
         THEN [ok |-> FALSE, mag |-> acc, why |-> "InvalidDigit"]
    ELSE LET next == StripZeros(Append(acc, DigitOf(chars[1])))
         IN  IF MagLess(limit, next)
             THEN [ok |-> FALSE, mag |-> acc, why |-> "Overflow"]
             ELSE ParseDigits(Tail(chars), next, limit)

\* The parse of token `s` as an integer kind: signed kinds take a leading '+' or '-',
\* unsigned kinds a leading '+' only.
ParseInt(s, signed, posLimit, negLimit) ==
    IF s = <<>> THEN [ok |-> FALSE, neg |-> FALSE, mag |-> <<0>>, why |-> "Empty"]
    ELSE LET isNeg  == signed /\ s[1] = "-"
             digits == IF s[1] = "+" \/ isNeg THEN Tail(s) ELSE s
         IN  IF digits = <<>>
             THEN [ok |-> FALSE, neg |-> FALSE, mag |-> <<0>>, why |-> "Empty"]
             ELSE LET r == ParseDigits(digits, <<0>>, IF isNeg THEN negLimit ELSE posLimit)
                  IN  [ok |-> r.ok, neg |-> isNeg /\ r.mag # <<0>>, mag |-> r.mag, why |-> r.why]

ParseI32(s) == ParseInt(s, TRUE, I32Max, I32MinMag)
ParseI64(s) == ParseInt(s, TRUE, I64Max, I64MinMag)
ParseU32(s) == ParseInt(s, FALSE, U32Max, U32Max)
ParseU64(s) == ParseInt(s, FALSE, U64Max, U64Max)

-----------------------------------------------------------------------------
(* f32::from_bits / f64::from_bits and the Display of a float *)

\* An IEEE 754 binary format: the bit patterns (as magnitudes) of the sign bit, of
\* +infinity and of the smallest normal number, and the value of the smallest
\* subnormal, ulp * 10^-ulpExp (2^-149 and 2^-1074, to eight significant digits).
F32Format == [signBit |-> <<2,1,4,7,4,8,3,6,4,8>>,
              inf |-> <<2,1,3,9,0,9,5,0,4,0>>,
              minNormal |-> <<8,3,8,8,6,0,8>>,
              ulp |-> 14012985, ulpExp |-> 52]
F64Format == [signBit |-> <<9,2,2,3,3,7,2,0,3,6,8,5,4,7,7,5,8,0,8>>,
              inf |-> <<9,2,1,8,8,6,8,4,3,7,2,2,7,4,0,5,3,1,2>>,
              minNormal |-> <<4,5,0,3,5,9,9,6,2,7,3,7,0,4,9,6>>,
              ulp |-> 49406565, ulpExp |-> 331]

\* The float a bit pattern denotes: its sign and class, and for a subnormal the
\* fraction field.  The digits of normal numbers are not modelled: no run of the
\* model produces one.
FromBits(fmt, bits) ==
    LET neg  == MagLeq(fmt.signBit, bits)
        rest == IF neg THEN MagSub(bits, fmt.signBit) ELSE bits
    IN  CASE rest = <<0>>                 -> [class |-> "zero", neg |-> neg, frac |-> <<0>>]
          [] rest = fmt.inf               -> [class |-> "inf", neg |-> neg, frac |-> <<0>>]
          [] MagLess(fmt.inf, rest)       -> [class |-> "nan", neg |-> neg, frac |-> <<0>>]
          [] rest # <<0>> /\ MagLess(rest, fmt.minNormal)
                                          -> [class |-> "subnormal", neg |-> neg, frac |-> rest]

\* The shortest decimal m * 10^k (in units of 10^-ulpExp) that reads back as the
\* subnormal b * ulp: the multiple of the largest power of ten lying strictly
\* between the midpoints to the neighbouring floats, and among those the one
\* nearest to the value.  All quantities are doubled to keep the midpoints integral.
RECURSIVE ShortestFrom(_, _, _)
ShortestFrom(b, ulp, k) ==
    LET P  == 2 * Pow10(k)
        L  == (2 * b - 1) * ulp
        V  == 2 * b * ulp
        H  == (2 * b + 1) * ulp
        lo == (V \div P) * P
        hi == lo + P
        loIn == L < lo /\ lo < H
        hiIn == L < hi /\ hi < H
    IN  IF loIn /\ (~hiIn \/ V - lo <= hi - V) THEN [m |-> lo \div P, k |-> k]
        ELSE IF hiIn THEN [m |-> hi \div P, k |-> k]
        ELSE ShortestFrom(b, ulp, k - 1)

ShortestSubnormal(fmt, b) == ShortestFrom(b, fmt.ulp, 8)

\* Display of a float ("{}"): never in exponent form.
DisplayFloat(fmt, f) ==
    LET sign == IF f.neg THEN <<"-">> ELSE <<>>
    IN  CASE f.class = "zero" -> sign \o <<"0">>
          [] f.class = "inf"  -> sign \o <<"i", "n", "f">>
          [] f.class = "nan"  -> <<"N", "a", "N">>
          [] f.class = "subnormal" ->
                LET d      == ShortestSubnormal(fmt, MagToNat(f.frac))
                    digits == MagText(NatToMag(d.m))
                IN  sign \o <<"0", ".">> \o Zeros(fmt.ulpExp - d.k - Len(digits)) \o digits

-----------------------------------------------------------------------------
(* Values, signatures and errors *)

ValTypes == {"I32", "I64", "F32", "F64", "ExternRef", "FuncRef", "V128"}

NoErr == [kind |-> "none", names |-> "nothing"]
NoFunc == [name |-> "none", params |-> <<>>, body |-> "none"]
NoInstance == [present |-> FALSE, exports |-> {}]
NoHttp == [present |-> FALSE,
           allowed_hosts |-> [some |-> FALSE, v |-> {}],
           max_concurrent_requests |-> [some |-> FALSE, v |-> 0]]

None == [some |-> FALSE, v |-> {}]
Some(x) == [some |-> TRUE, v |-> x]
NoLimit == [some |-> FALSE, v |-> 0]

\* Val::I32 / Val::I64 hold a signed integer, Val::F32 / Val::F64 the raw bits
\* (an unsigned integer of the same width), Val::V128 an unsigned integer.
IntVal(ty, r) == [ty |-> ty, neg |-> r.neg, mag |-> r.mag]

-----------------------------------------------------------------------------
(* invoke_func: the encoding of the text arguments (lines 97-113) *)

\* EncodeOne with an arm added for V128 that parses the token as an integer.
EncodeOne_V128Arm(ty, s) ==
    LET r == CASE ty = "I32" -> ParseI32(s)
               [] ty = "I64" -> ParseI64(s)
               [] ty = "F32" -> ParseU32(s)
               [] ty = "F64" -> ParseU64(s)
               [] ty = "V128" -> ParseU64(s)
               [] OTHER      -> [ok |-> FALSE, neg |-> FALSE, mag |-> <<0>>, why |-> "Unsupported"]
    IN  IF ty \notin {"I32", "I64", "F32", "F64", "V128"}
        THEN [ok |-> FALSE, val |-> IntVal(ty, r), err |-> [kind |-> "UnsupportedType", names |-> ty]]
        ELSE IF ~r.ok
        THEN [ok |-> FALSE, val |-> IntVal(ty, r), err |-> [kind |-> "ParseIntError", names |-> r.why]]
        ELSE [ok |-> TRUE, val |-> IntVal(ty, r), err |-> NoErr]

\* One iteration of the loop body for parameter kind `ty` and token `s`:
\* the match on the kind, with the parse the target type of each arm selects.
EncodeOne(ty, s) ==
    LET r == CASE ty = "I32" -> ParseI32(s)
               [] ty = "I64" -> ParseI64(s)
               [] ty = "F32" -> ParseU32(s)
               [] ty = "F64" -> ParseU64(s)
               [] OTHER      -> [ok |-> FALSE, neg |-> FALSE, mag |-> <<0>>, why |-> "Unsupported"]
    IN  IF ty \notin {"I32", "I64", "F32", "F64"}
        THEN [ok |-> FALSE, val |-> IntVal(ty, r), err |-> [kind |-> "UnsupportedType", names |-> ty]]
        ELSE IF ~r.ok
        THEN [ok |-> FALSE, val |-> IntVal(ty, r), err |-> [kind |-> "ParseIntError", names |-> r.why]]
        ELSE [ok |-> TRUE, val |-> IntVal(ty, r), err |-> NoErr]

\* EncodeFrom with the match on the kind moved before args.next(): an unsupported
\* kind is reported even when no token is left for it.
RECURSIVE EncodeFrom_TypeFirst(_, _, _, _)
EncodeFrom_TypeFirst(params, args, i, acc) ==
    IF i > Len(params) THEN [ok |-> TRUE, values |-> acc, err |-> NoErr]
    ELSE IF params[i] \notin {"I32", "I64", "F32", "F64"}
         THEN [ok |-> FALSE, values |-> acc,
               err |-> [kind |-> "UnsupportedType", names |-> params[i]]]
    ELSE IF i > Len(args)
         THEN [ok |-> FALSE, values |-> acc,
               err |-> [kind |-> "NotEnoughArguments", names |-> "nothing"]]
    ELSE LET e == EncodeOne(params[i], args[i])
         IN  IF e.ok THEN EncodeFrom_TypeFirst(params, args, i + 1, Append(acc, e.val))
             ELSE [ok |-> FALSE, values |-> acc, err |-> e.err]

\* The loop over ty.params(), in lockstep with the argument iterator: a missing
\* token is found before the kind of the parameter is looked at.
RECURSIVE EncodeFrom(_, _, _, _)
EncodeFrom(params, args, i, acc) ==
    IF i > Len(params) THEN [ok |-> TRUE, values |-> acc, err |-> NoErr]
    ELSE IF i > Len(args)
         THEN [ok |-> FALSE, values |-> acc,
               err |-> [kind |-> "NotEnoughArguments", names |-> "nothing"]]
    ELSE LET e == EncodeOne(params[i], args[i])
         IN  IF e.ok THEN EncodeFrom(params, args, i + 1, Append(acc, e.val))
             ELSE [ok |-> FALSE, values |-> acc, err |-> e.err]

Encode(params, args) == EncodeFrom(params, args, 1, <<>>)

(* invoke_func: the printing of the results (lines 116-126) *)

Placeholder(ty) ==
    IF ty = "ExternRef"
    THEN <<"<", "e", "x", "t", "e", "r", "n", "r", "e", "f", ">">>
    ELSE <<"<", "f", "u", "n", "c", "r", "e", "f", ">">>

DisplayInt(v) == (IF v.neg THEN <<"-">> ELSE <<>>) \o MagText(v.mag)

\* The line println! writes for one result value.
DecodeOne(v) ==
    CASE v.ty \in {"I32", "I64", "V128"} -> DisplayInt(v)
      [] v.ty = "F32" -> DisplayFloat(F32Format, FromBits(F32Format, v.mag))
      [] v.ty = "F64" -> DisplayFloat(F64Format, FromBits(F64Format, v.mag))
      [] v.ty \in {"ExternRef", "FuncRef"} -> Placeholder(v.ty)

Decode(vals) == [i \in 1..Len(vals) |-> DecodeOne(vals[i])]

-----------------------------------------------------------------------------
(* parse_env_var (lines 131-137) *)

\* Index of the first '=' of s, or 0.
RECURSIVE FirstEq(_, _)
FirstEq(s, i) ==
    IF i > Len(s) THEN 0 ELSE IF s[i] = "=" THEN i ELSE FirstEq(s, i + 1)

\* s.splitn(2, '='): at most two parts, cut at the first '='.
Splitn2(s) ==
    LET i == FirstEq(s, 1)
    IN  IF i = 0 THEN <<s>> ELSE <<SubSeq(s, 1, i - 1), SubSeq(s, i + 1, Len(s))>>

\* parse_env_var cutting at the last '=' (rsplitn) instead of the first.
RECURSIVE LastEq(_, _)
LastEq(s, i) ==
    IF i = 0 THEN 0 ELSE IF s[i] = "=" THEN i ELSE LastEq(s, i - 1)

parse_env_var_rsplit(s) ==
    LET i == LastEq(s, Len(s))
    IN  IF i = 0
        THEN [ok |-> FALSE, pair |-> <<s, <<>>>>]
        ELSE [ok |-> TRUE, pair |-> <<SubSeq(s, 1, i - 1), SubSeq(s, i + 1, Len(s))>>]

parse_env_var(s) ==
    LET parts == Splitn2(s)
    IN  IF Len(parts) # 2
        THEN [ok |-> FALSE, pair |-> <<s, <<>>>>]
        ELSE [ok |-> TRUE, pair |-> <<parts[1], parts[2]>>]

-----------------------------------------------------------------------------
(* main (lines 49-62) and create_instance (lines 64-90) *)

Fail(e) ==
    /\ stage' = "failed"
    /\ err' = e

Step(name) == trace' = Append(trace, name)

\* Opt::from_args(): every -e token goes through parse_env_var; the first
\* malformed one ends the process before main's body runs.
FromArgs ==
    /\ stage = "from_args"
    /\ cmdline.driver = "main"
    /\ Step("from_args")
    /\ LET parsed == [i \in 1..Len(cmdline.env) |-> parse_env_var(cmdline.env[i])]
       IN  IF \E i \in 1..Len(parsed) : ~parsed[i].ok
           THEN /\ Fail([kind |-> "EnvConfigError", names |-> "nothing"])
                /\ UNCHANGED <<vars, pending>>
           ELSE /\ vars' = [i \in 1..Len(parsed) |-> parsed[i].pair]
                /\ pending' = <<cmdline.invoke>>
                /\ stage' = "wasi_ctx"
                /\ err' = err
    /\ UNCHANGED <<cmdline, wasi_env, linker, http, instance, func, values,
                   results, stdout, calls, requests>>

\* WasiCtxBuilder::new()...envs(&vars)?.build()? : the builder may refuse.
BuildWasiCtx ==
    /\ stage = "wasi_ctx"
    /\ Step("wasi_ctx")
    /\ \E ok \in BOOLEAN :
         IF ok THEN /\ wasi_env' = vars
                    /\ stage' = "wasi_link"
                    /\ err' = err
               ELSE /\ Fail([kind |-> "WasiCtxError", names |-> "nothing"])
                    /\ wasi_env' = wasi_env
    /\ UNCHANGED <<cmdline, vars, linker, http, instance, func, values, results,
                   stdout, calls, requests, pending>>

\* Wasi::new(&store, ctx); wasi.add_to_linker(&mut linker)?
AddWasiToLinker ==
    /\ stage = "wasi_link"
    /\ Step("wasi_link")
    /\ \E ok \in BOOLEAN :
         IF ok THEN /\ linker' = Append(linker, "wasi")
                    /\ stage' = "http_new"
                    /\ err' = err
               ELSE /\ Fail([kind |-> "LinkError", names |-> "wasi"])
                    /\ linker' = linker
    /\ UNCHANGED <<cmdline, vars, wasi_env, http, instance, func, values, results,
                   stdout, calls, requests, pending>>

\* NewHttpCtx that drops the concurrency ceiling (passes None).
NewHttpCtx_NoCeiling ==
    /\ stage = "http_new"
    /\ Step("http_new")
    /\ \E ok \in BOOLEAN :
         IF ok THEN /\ http' = [present |-> TRUE,
                                allowed_hosts |-> cmdline.allowed_hosts,
                                max_concurrent_requests |-> NoLimit]
                    /\ stage' = "http_link"
                    /\ err' = err
               ELSE /\ Fail([kind |-> "HttpCtxError", names |-> "nothing"])
                    /\ http' = http
    /\ UNCHANGED <<cmdline, vars, wasi_env, linker, instance, func, values, results,
                   stdout, calls, requests, pending>>

\* NewHttpCtx that drops the allowlist (passes None).
NewHttpCtx_NoAllowlist ==
    /\ stage = "http_new"
    /\ Step("http_new")
    /\ \E ok \in BOOLEAN :
         IF ok THEN /\ http' = [present |-> TRUE,
                                allowed_hosts |-> None,
                                max_concurrent_requests |-> cmdline.max_concurrency]
                    /\ stage' = "http_link"
                    /\ err' = err
               ELSE /\ Fail([kind |-> "HttpCtxError", names |-> "nothing"])
                    /\ http' = http
    /\ UNCHANGED <<cmdline, vars, wasi_env, linker, instance, func, values, results,
                   stdout, calls, requests, pending>>

\* HttpCtx::new(allowed_hosts, max_concurrent_requests)?
NewHttpCtx ==
    /\ stage = "http_new"
    /\ Step("http_new")
    /\ \E ok \in BOOLEAN :
         IF ok THEN /\ http' = [present |-> TRUE,
                                allowed_hosts |-> cmdline.allowed_hosts,
                                max_concurrent_requests |-> cmdline.max_concurrency]
                    /\ stage' = "http_link"
                    /\ err' = err
               ELSE /\ Fail([kind |-> "HttpCtxError", names |-> "nothing"])
                    /\ http' = http
    /\ UNCHANGED <<cmdline, vars, wasi_env, linker, instance, func, values, results,
                   stdout, calls, requests, pending>>

\* AddHttpToLinker without the `?`: a failed registration goes unnoticed.
AddHttpToLinker_Unchecked ==
    /\ stage = "http_link"
    /\ Step("http_link")
    /\ \E ok \in BOOLEAN :
         /\ linker' = IF ok THEN Append(linker, "http") ELSE linker
         /\ stage' = "module_load"
         /\ err' = err
    /\ UNCHANGED <<cmdline, vars, wasi_env, http, instance, func, values, results,
                   stdout, calls, requests, pending>>

\* http.add_to_linker(&mut linker)?
AddHttpToLinker ==
    /\ stage = "http_link"
    /\ Step("http_link")
    /\ \E ok \in BOOLEAN :
         IF ok THEN /\ linker' = Append(linker, "http")
                    /\ stage' = "module_load"
                    /\ err' = err
               ELSE /\ Fail([kind |-> "LinkError", names |-> "http"])
                    /\ linker' = linker
    /\ UNCHANGED <<cmdline, vars, wasi_env, http, instance, func, values, results,
                   stdout, calls, requests, pending>>

\* wasmtime::Module::from_file(store.engine(), filename)?
ModuleFromFile ==
    /\ stage = "module_load"
    /\ Step("module_load")
    /\ IF cmdline.module.loadable
       THEN /\ stage' = "instantiate"
            /\ err' = err
       ELSE Fail([kind |-> "ModuleLoadError", names |-> "nothing"])
    /\ UNCHANGED <<cmdline, vars, wasi_env, linker, http, instance, func, values,
                   results, stdout, calls, requests, pending>>

Range(f) == {f[i] : i \in DOMAIN f}

\* linker.instantiate(&module)? : every import of the module must be in the linker.
Instantiate ==
    /\ stage = "instantiate"
    /\ Step("instantiate")
    /\ IF cmdline.module.imports \subseteq Range(linker)
       THEN /\ instance' = [present |-> TRUE, exports |-> cmdline.module.exports]
            /\ stage' = "get_func"
            /\ err' = err
       ELSE /\ Fail([kind |-> "LinkError", names |-> "module"])
            /\ instance' = instance
    /\ UNCHANGED <<cmdline, vars, wasi_env, linker, http, func, values, results,
                   stdout, calls, requests, pending>>

\* instance.get_func(name).unwrap_or_else(|| panic!(...)), of main (lines 55-57)
\* and of the integration harness (lines 87-89, 115-117).
GetFunc ==
    /\ stage = "get_func"
    /\ Step("get_func")
    /\ LET found == {f \in instance.exports : f.name = pending[1]}
       IN  IF found = {}
           THEN /\ Fail([kind |-> "FunctionNotFound", names |-> pending[1]])
                /\ func' = func
           ELSE /\ func' = CHOOSE f \in found : TRUE
                /\ stage' = IF cmdline.driver = "main" THEN "encode" ELSE "call"
                /\ err' = err
    /\ UNCHANGED <<cmdline, vars, wasi_env, linker, http, instance, values, results,
                   stdout, calls, requests, pending>>

-----------------------------------------------------------------------------
(* invoke_func (lines 94-129) *)

\* The encoding loop: on an error the function returns before func.call.
EncodeArgs ==
    /\ stage = "encode"
    /\ Step("encode")
    /\ LET e == Encode(func.params, cmdline.module_args)
       IN  IF e.ok THEN /\ values' = e.values
                        /\ stage' = "call"
                        /\ err' = err
                   ELSE /\ Fail(e.err)
                        /\ values' = values
    /\ UNCHANGED <<cmdline, vars, wasi_env, linker, http, instance, func, results,
                   stdout, calls, requests, pending>>

\* func.call(&values): control enters the guest (line 115; lines 91 and 118 of
\* the integration harness, with no arguments).
CallGuest ==
    /\ stage = "call"
    /\ Step("call")
    /\ calls' = calls + 1
    /\ stage' = "guest"
    /\ UNCHANGED <<cmdline, vars, wasi_env, linker, http, instance, func, values,
                   results, stdout, err, requests, pending>>

\* CallResult without the `?`: the error of the call is dropped.
CallResult_IgnoreTrap ==
    /\ stage = "returned"
    /\ cmdline.driver = "main"
    /\ Step("returned")
    /\ stage' = "print"
    /\ UNCHANGED <<cmdline, vars, wasi_env, linker, http, instance, func, values,
                   results, stdout, err, calls, requests, pending>>

\* The `?` on func.call in invoke_func: a trap is returned as the error of the run.
CallResult ==
    /\ stage = "returned"
    /\ cmdline.driver = "main"
    /\ Step("returned")
    /\ IF err.kind = "Trap" THEN stage' = "failed" ELSE stage' = "print"
    /\ UNCHANGED <<cmdline, vars, wasi_env, linker, http, instance, func, values,
                   results, stdout, err, calls, requests, pending>>

\* The loop over results.into_vec(): one println! per value, then Ok(()).
PrintResults ==
    /\ stage = "print"
    /\ Step("print")
    /\ stdout' = stdout \o Decode(results)
    /\ stage' = "done"
    /\ UNCHANGED <<cmdline, vars, wasi_env, linker, http, instance, func, values,
                   results, err, calls, requests, pending>>

\* RunTestsResult with the result of the call dropped (no `?`, no unwrap).
RunTestsResult_IgnoreError ==
    /\ stage = "returned"
    /\ cmdline.driver = "test"
    /\ Step("returned")
    /\ pending' = Tail(pending)
    /\ stage' = IF Tail(pending) = <<>> THEN "done" ELSE "get_func"
    /\ UNCHANGED <<cmdline, vars, wasi_env, linker, http, instance, func, values,
                   results, stdout, err, calls, requests>>

\* run_tests (lines 113-122) and make_concurrent_requests (line 91): a failed
\* call ends the test (`?` then unwrap), a successful one moves to the next name.
RunTestsResult ==
    /\ stage = "returned"
    /\ cmdline.driver = "test"
    /\ Step("returned")
    /\ IF err.kind = "Trap"
       THEN /\ stage' = "failed"
            /\ pending' = pending
       ELSE /\ pending' = Tail(pending)
            /\ stage' = IF Tail(pending) = <<>> THEN "done" ELSE "get_func"
    /\ UNCHANGED <<cmdline, vars, wasi_env, linker, http, instance, func, values,
                   results, stdout, err, calls, requests>>

-----------------------------------------------------------------------------
(* The guest and the HTTP capability *)

Origins == {"https://api.brigade.sh", "https://postman-echo.com"}

InFlight == {i \in 1..Len(requests) :
                requests[i].admission = "Allowed" /\ requests[i].outcome = "pending"}

DenialSignalled == \E i \in 1..Len(requests) : requests[i].admission # "Allowed"

\* The decision of the capability on a request to origin o: the allowlist first
\* (no allowlist and an empty one both deny), then the concurrency ceiling.
Admission(ctx, o) ==
    IF ~ctx.allowed_hosts.some \/ o \notin ctx.allowed_hosts.v
    THEN "DeniedByAllowlist"
    ELSE IF ctx.max_concurrent_requests.some
            /\ Cardinality(InFlight) >= ctx.max_concurrent_requests.v
    THEN "ThrottledByCapacity"
    ELSE "Allowed"

\* The guest issues an outbound request through the capability.  A denied or
\* throttled request is over at once, with a failure handed to the guest.  A
\* body "http_one" (get, post) makes one request per call; a body "http_many"
\* (concurrent) makes requests without waiting for the earlier ones to end.
HttpRequest ==
    /\ stage = "guest"
    /\ \/ func.body = "http_many"
       \/ func.body = "http_one" /\ Len(requests) < calls
    /\ ~DenialSignalled
    /\ Len(requests) < MaxRequests
    /\ \E o \in Origins :
         LET a == Admission(http, o)
         IN  requests' = Append(requests,
                 [origin |-> o, admission |-> a,
                  outcome |-> IF a = "Allowed" THEN "pending" ELSE "Failed"])
    /\ UNCHANGED <<stage, cmdline, vars, wasi_env, linker, http, instance, func,
                   values, results, stdout, err, calls, pending, trace>>

\* An admitted request ends: the network call completed or failed; either is
\* handed to the guest as the result of its request.
HttpResolve ==
    /\ stage = "guest"
    /\ \E i \in InFlight, out \in {"Completed", "Failed"} :
         requests' = [requests EXCEPT ![i].outcome = out]
    /\ UNCHANGED <<stage, cmdline, vars, wasi_env, linker, http, instance, func,
                   values, results, stdout, err, calls, pending, trace>>

\* Results of a body that returns fixed values of the kinds no text argument can give.
ConstResults ==
    << [ty |-> "ExternRef", neg |-> FALSE, mag |-> <<0>>],
       [ty |-> "FuncRef", neg |-> FALSE, mag |-> <<0>>],
       [ty |-> "V128", neg |-> FALSE, mag |-> <<3, 4>>] >>

\* The guest function returns: its parameters unchanged ("identity"), fixed
\* values ("const"), or nothing (a body that has made its HTTP requests: get and
\* post once their request has ended, concurrent after at least one request).
GuestReturn ==
    /\ stage = "guest"
    /\ \/ func.body = "identity" /\ results' = values
       \/ func.body = "const" /\ results' = ConstResults
       \/ /\ func.body = "http_one"
          /\ ~DenialSignalled
          /\ Len(requests) = calls
          /\ InFlight = {}
          /\ results' = <<>>
       \/ /\ func.body = "http_many"
          /\ ~DenialSignalled
          /\ requests # <<>>
          /\ results' = <<>>
    /\ stage' = "returned"
    /\ UNCHANGED <<cmdline, vars, wasi_env, linker, http, instance, func, values,
                   stdout, err, calls, requests, pending, trace>>

\* The guest traps: an unreachable instruction, or the abort of a guest that was
\* handed a denial.
GuestTrap ==
    /\ stage = "guest"
    /\ \/ func.body = "trap"
       \/ func.body \in {"http_one", "http_many"} /\ DenialSignalled
    /\ err' = [kind |-> "Trap", names |-> func.name]
    /\ stage' = "returned"
    /\ UNCHANGED <<cmdline, vars, wasi_env, linker, http, instance, func, values,
                   results, stdout, calls, requests, pending, trace>>

-----------------------------------------------------------------------------
(* Inputs *)

SeqsUpTo(S, n) == UNION {[1..k -> S] : k \in 0..n}

\* Text arguments: a word, canonical and signed integers, a float literal, and
\* the integers 2^63 - 1 and 2^63 at the edge of the 64-bit signed range.
ArgTokens ==
    { <<"x">>, <<"0">>, <<"1">>, <<"-", "1">>, <<"+", "5">>, <<"1", ".", "5">>,
      MagText(I64Max), MagText(I64MinMag) }

\* -e tokens: NAME=VAL, a bare name, a value that holds '=', an empty name.
EnvTokens ==
    { <<"A", "=", "1">>, <<"A">>, <<"A", "=", "B", "=", "1">>, <<"=", "1">> }

Signatures == SeqsUpTo(ValTypes, MaxParams)

\* The exported functions the argument codec is exercised on: every signature
\* with a body that returns its parameters, and bodies that trap or return
\* values of the reference and vector kinds.
CodecFuncs ==
    {[name |-> "f", params |-> p, body |-> "identity"] : p \in Signatures}
    \cup {[name |-> "f", params |-> <<"I32">>, body |-> b] : b \in {"trap", "const"}}

\* Module files given to main: one that cannot be loaded, one that imports a
\* name no capability provides, and two that link and export five functions.
MainExports ==
    { [name |-> "_start", params |-> <<>>, body |-> "identity"],
      [name |-> "add", params |-> <<"I32", "I64">>, body |-> "identity"],
      [name |-> "half", params |-> <<"F64">>, body |-> "identity"],
      [name |-> "refs", params |-> <<>>, body |-> "const"],
      [name |-> "boom", params |-> <<"I32">>, body |-> "trap"] }

MainModules ==
    { [loadable |-> FALSE, imports |-> {}, exports |-> {}],
      [loadable |-> TRUE, imports |-> {"wasi", "env"}, exports |-> MainExports],
      [loadable |-> TRUE, imports |-> {"wasi"}, exports |-> MainExports],
      [loadable |-> TRUE, imports |-> {"wasi", "http"}, exports |-> MainExports] }

InvokeNames == {"_start", "add", "half", "refs", "boom", "nope"}

MainArgTokens == { <<"1">>, <<"x">> }

\* The guest modules of the integration harness: get, post and concurrent make
\* outbound requests and take no arguments.
TestExports ==
    { [name |-> "get", params |-> <<>>, body |-> "http_one"],
      [name |-> "post", params |-> <<>>, body |-> "http_one"],
      [name |-> "concurrent", params |-> <<>>, body |-> "http_many"] }

TestModule == [loadable |-> TRUE, imports |-> {"wasi", "http"}, exports |-> TestExports]

AllowedHostsChoices == {None} \cup {Some(S) : S \in SUBSET Origins}

ConcurrencyChoices == {NoLimit} \cup {[some |-> TRUE, v |-> k] : k \in 1..MaxConcurrency}

-----------------------------------------------------------------------------
(* Specifications *)

Blank ==
    /\ vars = <<>>
    /\ wasi_env = <<>>
    /\ linker = <<>>
    /\ http = NoHttp
    /\ instance = NoInstance
    /\ func = NoFunc
    /\ values = <<>>
    /\ results = <<>>
    /\ stdout = <<>>
    /\ err = NoErr
    /\ calls = 0
    /\ requests = <<>>
    /\ trace = <<>>

\* The process starts: main is about to read its command line.
Init ==
    /\ stage = "from_args"
    /\ cmdline \in [driver : {"main"},
                    env : SeqsUpTo(EnvTokens, MaxEnv),
                    module : MainModules,
                    invoke : InvokeNames,
                    allowed_hosts : {None},
                    max_concurrency : {NoLimit},
                    module_args : SeqsUpTo(MainArgTokens, MaxArgs)]
    /\ pending = <<>>
    /\ Blank

Next ==
    \/ FromArgs
    \/ BuildWasiCtx
    \/ AddWasiToLinker
    \/ NewHttpCtx
    \/ AddHttpToLinker
    \/ ModuleFromFile
    \/ Instantiate
    \/ GetFunc
    \/ EncodeArgs
    \/ CallGuest
    \/ GuestReturn
    \/ GuestTrap
    \/ CallResult
    \/ PrintResults

Spec == Init /\ [][Next]_vars_all

\* invoke_func is entered: main has built the instance and resolved an exported
\* function f, of any signature, and holds the text arguments.
InitCodec ==
    /\ stage = "encode"
    /\ \E f \in CodecFuncs, args \in SeqsUpTo(ArgTokens, MaxArgs) :
         /\ cmdline = [driver |-> "main", env |-> <<>>,
                       module |-> [loadable |-> TRUE, imports |-> {"wasi", "http"},
                                   exports |-> {f}],
                       invoke |-> "f", allowed_hosts |-> None,
                       max_concurrency |-> NoLimit, module_args |-> args]
         /\ instance = [present |-> TRUE, exports |-> {f}]
         /\ func = f
    /\ vars = <<>>
    /\ wasi_env = <<>>
    /\ linker = <<"wasi", "http">>
    /\ http = [present |-> TRUE, allowed_hosts |-> None, max_concurrent_requests |-> NoLimit]
    /\ values = <<>>
    /\ results = <<>>
    /\ stdout = <<>>
    /\ err = NoErr
    /\ calls = 0
    /\ requests = <<>>
    /\ pending = <<"f">>
    /\ trace = <<"from_args", "wasi_ctx", "wasi_link", "http_new", "http_link",
                 "module_load", "instantiate", "get_func">>

NextCodec ==
    \/ EncodeArgs
    \/ CallGuest
    \/ GuestReturn
    \/ GuestTrap
    \/ CallResult
    \/ PrintResults

SpecCodec == InitCodec /\ [][NextCodec]_vars_all

\* A test of the integration harness starts: create_instance is about to run
\* with an allowlist and a concurrency ceiling, then the named functions are called.
InitHttp ==
    /\ stage = "wasi_ctx"
    /\ cmdline \in [driver : {"test"},
                    env : {<<>>},
                    module : {TestModule},
                    invoke : {"none"},
                    allowed_hosts : AllowedHostsChoices,
                    max_concurrency : ConcurrencyChoices,
                    module_args : {<<>>}]
    /\ pending \in {<<"get", "post">>, <<"concurrent">>}
    /\ Blank

NextHttp ==
    \/ BuildWasiCtx
    \/ AddWasiToLinker
    \/ NewHttpCtx
    \/ AddHttpToLinker
    \/ ModuleFromFile
    \/ Instantiate
    \/ GetFunc
    \/ CallGuest
    \/ HttpRequest
    \/ HttpResolve
    \/ GuestReturn
    \/ GuestTrap
    \/ RunTestsResult

SpecHttp == InitHttp /\ [][NextHttp]_vars_all

-----------------------------------------------------------------------------
(* Properties of the argument codec, checked under SpecCodec *)

NumericKinds == {"I32", "I64", "F32", "F64"}

IsDigits(s) == s # <<>> /\ \A i \in 1..Len(s) : s[i] \in DigitChars

Unsign(s) == IF s # <<>> /\ s[1] \in {"+", "-"} THEN Tail(s) ELSE s

DigitsOf(s) == [i \in 1..Len(s) |-> DigitOf(s[i])]

\* s is an integer literal within the range of the integer kind ty.
IntLiteral(ty, s) ==
    /\ IsDigits(Unsign(s))
    /\ LET mag == StripZeros(DigitsOf(Unsign(s)))
           neg == s[1] = "-"
       IN  IF ty = "I32" THEN MagLeq(mag, IF neg THEN I32MinMag ELSE I32Max)
                         ELSE MagLeq(mag, IF neg THEN I64MinMag ELSE I64Max)

\* s is a decimal floating-point literal: an optional sign, digits, at most one '.'.
FloatLiteral(s) ==
    LET u == Unsign(s)
    IN  /\ \A i \in 1..Len(u) : u[i] \in DigitChars \cup {"."}
        /\ Cardinality({i \in 1..Len(u) : u[i] = "."}) <= 1
        /\ \E i \in 1..Len(u) : u[i] \in DigitChars

ValidLiteral(ty, s) ==
    IF ty \in {"I32", "I64"} THEN IntLiteral(ty, s) ELSE FloatLiteral(s)

\* s is the decimal form the harness itself prints for a value of kind ty: no
\* '+', no leading zeros, no "-0", and for a float at most six digits.
CanonicalLiteral(ty, s) ==
    /\ ValidLiteral(ty, s)
    /\ s[1] # "+"
    /\ LET u == Unsign(s)
       IN  /\ u[1] # "."
           /\ u[Len(u)] # "."
           /\ (Len(u) > 1 /\ u[1] = "0") => u[2] = "."
           /\ (s[1] = "-") => \E i \in 1..Len(u) : u[i] \in DigitChars \ {"0"}
           /\ ty \in {"F32", "F64"} => Len(u) <= 7

Args == cmdline.module_args
Params == func.params

Encoded == stage # "encode"
Finished == stage \in {"done", "failed"}

\* Every token that has a parameter encodes against it.
SuppliedTokensEncode ==
    \A i \in 1..Len(Args) : i <= Len(Params) => EncodeOne(Params[i], Args[i]).ok

\* C4 as stated: with fewer tokens than parameters invoke_func fails with the
\* arity error and the guest function is not called.
C4_Original ==
    (Encoded /\ Len(Args) < Len(Params))
        => (stage = "failed" /\ err.kind = "NotEnoughArguments" /\ calls = 0)

\* C4 (amended): with fewer text tokens than parameters invoke_func fails and the
\* guest function is never called; the error is the arity error exactly when
\* every supplied token encodes against its parameter, and otherwise the parse or
\* unsupported-type error of the first token that does not.
C4_Arity ==
    (Encoded /\ Len(Args) < Len(Params))
        => /\ stage = "failed"
           /\ calls = 0
           /\ (err.kind = "NotEnoughArguments") <=> SuppliedTokensEncode
           /\ err.kind \in {"NotEnoughArguments", "ParseIntError", "UnsupportedType"}

C4_Witness ==
    /\ stage = "failed"
    /\ err.kind = "NotEnoughArguments"
    /\ Len(Args) = 1
    /\ Len(Params) = 2

\* The first parameter of a kind outside the four numeric kinds, or 0.
FirstUnsupported ==
    IF \E i \in 1..Len(Params) : Params[i] \notin NumericKinds
    THEN CHOOSE i \in 1..Len(Params) :
            /\ Params[i] \notin NumericKinds
            /\ \A j \in 1..(i - 1) : Params[j] \in NumericKinds
    ELSE 0

\* The parameters before the first unsupported one all have a token that encodes.
EarlierEncode ==
    /\ FirstUnsupported > 0
    /\ \A j \in 1..(FirstUnsupported - 1) :
          j <= Len(Args) /\ EncodeOne(Params[j], Args[j]).ok

UnsupportedErr == [kind |-> "UnsupportedType", names |-> Params[FirstUnsupported]]

\* C9 as stated: a parameter of an unsupported kind fails the encoding with the
\* unsupported-type error naming the kind, whatever the length of the argument list.
C9_Original ==
    (Encoded /\ EarlierEncode)
        => (stage = "failed" /\ err = UnsupportedErr /\ calls = 0)

\* C9 (amended): when the earlier parameters encode, a parameter of an
\* unsupported kind fails the encoding without calling the guest: with the
\* unsupported-type error naming the kind when a token is left for it, and with
\* the arity error when none is.
C9_Unsupported ==
    (Encoded /\ EarlierEncode)
        => /\ stage = "failed"
           /\ calls = 0
           /\ err = IF Len(Args) >= FirstUnsupported
                    THEN UnsupportedErr
                    ELSE [kind |-> "NotEnoughArguments", names |-> "nothing"]

C9_Witness ==
    /\ stage = "failed"
    /\ FirstUnsupported = 2
    /\ Len(Args) = 2
    /\ err = [kind |-> "UnsupportedType", names |-> "V128"]

AllNumeric == \A i \in 1..Len(Params) : Params[i] \in NumericKinds

\* C6: every token consumed for a numeric parameter is read in the format of the
\* parameter's kind (integer literals for i32 and i64, floating-point literals
\* for f32 and f64): when all are valid the encoding succeeds, and when one is
\* not the run fails with a parse error before the guest is called.
C6_CanonicalFormat ==
    (Encoded /\ AllNumeric /\ Len(Args) >= Len(Params))
        => IF \A i \in 1..Len(Params) : ValidLiteral(Params[i], Args[i])
           THEN ~(stage = "failed" /\ calls = 0)
           ELSE stage = "failed" /\ err.kind = "ParseIntError" /\ calls = 0

\* C5: for a signature of numeric kinds, a body that returns its parameters, and
\* one canonical literal of the matching kind per parameter, the run ends having
\* printed each token as it was supplied.
C5_RoundTrip ==
    (/\ Finished
     /\ AllNumeric
     /\ func.body = "identity"
     /\ Len(Args) = Len(Params)
     /\ \A i \in 1..Len(Params) : CanonicalLiteral(Params[i], Args[i]))
        => (stage = "done" /\ stdout = Args)

-----------------------------------------------------------------------------
(* Properties of main and create_instance, checked under Spec *)

CountEq(s) == Cardinality({i \in 1..Len(s) : s[i] = "="})

EnvRejected == stage = "failed" /\ err.kind = "EnvConfigError"

ArgsParsed == stage # "from_args"

NothingBuilt ==
    /\ trace = <<"from_args">>
    /\ vars = <<>>
    /\ wasi_env = <<>>
    /\ linker = <<>>
    /\ ~http.present
    /\ ~instance.present

\* The system-interface capability has been built from the parsed pairs.
WasiBuilt == Len(trace) >= 2 /\ ~(Len(trace) = 2 /\ stage = "failed")

\* C7 as stated: the command line is rejected exactly when some -e token does not
\* have exactly one '='.
C7_Original ==
    ArgsParsed => (EnvRejected <=> \E i \in 1..Len(cmdline.env) : CountEq(cmdline.env[i]) # 1)

\* C7 (amended): an -e token is well-formed exactly when it holds at least one
\* '='; a malformed token is a fatal configuration error raised before anything is
\* built; and each well-formed token reaches the system-interface capability as
\* the pair (text before its first '=', text after it).
C7_EnvTokens ==
    /\ ArgsParsed =>
          (EnvRejected <=> \E i \in 1..Len(cmdline.env) : CountEq(cmdline.env[i]) = 0)
    /\ EnvRejected => NothingBuilt
    /\ WasiBuilt =>
          /\ Len(wasi_env) = Len(cmdline.env)
          /\ \A i \in 1..Len(wasi_env) :
                /\ cmdline.env[i] = wasi_env[i][1] \o <<"=">> \o wasi_env[i][2]
                /\ CountEq(wasi_env[i][1]) = 0

C7_Witness ==
    /\ WasiBuilt
    /\ \E i \in 1..Len(wasi_env) : wasi_env[i] = << <<"A">>, <<"B", "=", "1">> >>

RegistrationFailed ==
    \/ err.kind = "WasiCtxError"
    \/ err.kind = "HttpCtxError"
    \/ err.kind = "LinkError" /\ err.names \in {"wasi", "http"}

Taken(step) == \E i \in 1..Len(trace) : trace[i] = step

\* C8: create_instance registers the system-interface capability before the HTTP
\* capability, the module is loaded and instantiated only after both are
\* registered, and a failed registration or a failed construction of the HTTP
\* capability leaves the module uninstantiated.
C8_LinkOrder ==
    /\ linker \in {<<>>, <<"wasi">>, <<"wasi", "http">>}
    /\ (Taken("module_load") \/ Taken("instantiate") \/ instance.present)
          => (linker = <<"wasi", "http">> /\ http.present)
    /\ RegistrationFailed
          => (~instance.present /\ ~Taken("module_load") /\ ~Taken("instantiate"))

C8_Witness ==
    /\ instance.present
    /\ linker = <<"wasi", "http">>

Pipeline ==
    <<"from_args", "wasi_ctx", "wasi_link", "http_new", "http_link", "module_load",
      "instantiate", "get_func", "encode", "call", "returned", "print">>

C10_State ==
    /\ Len(trace) <= Len(Pipeline)
    /\ \A i \in 1..Len(trace) : trace[i] = Pipeline[i]
    /\ stage \notin {"failed", "done"} => stage \in {Pipeline[Len(trace) + 1], "guest", "returned"}
    /\ calls = IF Taken("call") THEN 1 ELSE 0
    /\ stage = "failed" => (err # NoErr /\ stdout = <<>>)
    /\ stage = "done" =>
          /\ err = NoErr
          /\ trace = Pipeline
          /\ Len(stdout) = Len(results)
          /\ \A i \in 1..Len(results) : stdout[i] = DecodeOne(results[i])
    /\ stdout # <<>> => stage = "done"

\* C10: a run takes the steps of the pipeline in order, each at most once; a
\* failure ends it with a failure status and nothing printed, and no step is
\* taken after the end; the guest function is entered at most once; the result
\* lines are printed only after a successful call, one per result value in order.
C10_Pipeline ==
    /\ []C10_State
    /\ [][stage \notin {"failed", "done"}]_vars_all

C10_Witness ==
    /\ stage = "done"
    /\ func.name = "refs"
    /\ Len(stdout) = 3

-----------------------------------------------------------------------------
(* Properties of the HTTP capability as configured by create_instance, checked
   under SpecHttp *)

Ceiling == cmdline.max_concurrency
Allowlist == cmdline.allowed_hosts

Last(q) == q[Len(q)]

\* This step issues a request.
Issues == Len(requests') = Len(requests) + 1

\* Once decided, the admission of a request never changes.
AdmissionsKept ==
    \A i \in 1..Len(requests) :
        /\ requests'[i].admission = requests[i].admission
        /\ requests'[i].origin = requests[i].origin

\* C1: with max_concurrency = Some(k) at most k requests are admitted at any
\* time; a request issued while k are in flight is not admitted, by that step or
\* by any later one.
C1_Ceiling ==
    /\ [](Ceiling.some => Cardinality(InFlight) <= Ceiling.v)
    /\ [][(Issues /\ Ceiling.some /\ Cardinality(InFlight) >= Ceiling.v)
              => Last(requests').admission # "Allowed"]_vars_all
    /\ [][Len(requests') >= Len(requests) /\ AdmissionsKept]_vars_all

C1_Witness ==
    /\ Ceiling = [some |-> TRUE, v |-> 2]
    /\ Cardinality(InFlight) = 2
    /\ Len(requests) = 3
    /\ requests[3].admission = "ThrottledByCapacity"

DenyAll == ~Allowlist.some \/ Allowlist.v = {}

\* C2: with no allowlist, or an empty one, every request of the guest is denied
\* and never executed, and a call that attempts one does not return successfully:
\* the run of get and post, or of concurrent, never ends in success.
C2_DenyAll ==
    DenyAll =>
        /\ stage # "done"
        /\ \A i \in 1..Len(requests) :
              /\ requests[i].admission = "DeniedByAllowlist"
              /\ requests[i].outcome = "Failed"
        /\ requests # <<>> =>
              /\ stage \in {"guest", "returned", "failed"}
              /\ stage = "returned" => err.kind = "Trap"
              /\ stage = "failed" => err.kind = "Trap"

C2_Witness ==
    /\ ~Allowlist.some
    /\ stage = "failed"
    /\ requests # <<>>

NonEmptyAllowlist == Allowlist.some /\ Allowlist.v # {}

AllTargetAllowlist == \A i \in 1..Len(requests) : requests[i].origin \in Allowlist.v

NoneThrottled == \A i \in 1..Len(requests) : requests[i].admission # "ThrottledByCapacity"

\* C3 as stated: with a non-empty allowlist S a request is admitted if its origin
\* is in S and denied if it is not, and a guest whose requests all target S does
\* not fail.
C3_Original ==
    NonEmptyAllowlist =>
        /\ \A i \in 1..Len(requests) :
              IF requests[i].origin \in Allowlist.v
              THEN requests[i].admission = "Allowed"
              ELSE requests[i].admission = "DeniedByAllowlist"
        /\ AllTargetAllowlist => err.kind # "Trap"

C3_State ==
    NonEmptyAllowlist =>
        /\ \A i \in 1..Len(requests) :
              /\ requests[i].origin \notin Allowlist.v
                    <=> requests[i].admission = "DeniedByAllowlist"
              /\ requests[i].admission = "ThrottledByCapacity" => Ceiling.some
        /\ (AllTargetAllowlist /\ NoneThrottled) => err.kind # "Trap"

\* C3 (amended): with a non-empty allowlist S a request is denied exactly when its
\* origin is outside S; a request to an origin in S is admitted unless the
\* concurrency ceiling is reached when it is issued, and then it is throttled; so
\* a guest whose requests all target S completes its calls without failure as
\* long as none of them meets the ceiling (never, when no ceiling is configured).
C3_Allowlist ==
    /\ []C3_State
    /\ [][(Issues /\ NonEmptyAllowlist /\ Last(requests').origin \in Allowlist.v)
              => Last(requests').admission =
                    IF Ceiling.some /\ Cardinality(InFlight) >= Ceiling.v
                    THEN "ThrottledByCapacity" ELSE "Allowed"]_vars_all

C3_Witness ==
    /\ NonEmptyAllowlist
    /\ stage = "done"
    /\ calls = 2
    /\ Len(requests) >= 2
    /\ \A i \in 1..Len(requests) : requests[i].admission = "Allowed"

=============================================================================
